---- MODULE Spec2Model ----
(***************************************************************************)
(* Task assignment and lifecycle reconciliation of automated-dev-agents:   *)
(* Task / TaskQueue (src/core/task.py), Agent (src/core/agent.py),         *)
(* TaskOrchestrator (src/core/orchestrator.py) and the in-memory memory    *)
(* client (MockMTMAClient, src/main.py).                                   *)
(*                                                                         *)
(* Conventions.  A Python Optional is a sequence of length <= 1: <<>> is   *)
(* None and <<v>> is the value v.  A Python dict that the code iterates is *)
(* a function plus the sequence of its keys in insertion order.  Lists the *)
(* code only tests for membership (capabilities, dependencies) are sets.   *)
(* The stamps the code adds to memory records and never reads (the times   *)
(* assigned_at, reported_at, completed_at, failed_at, updated_at and the   *)
(* agent id of assignment and progress records) are left out of the        *)
(* records; Task.created_at is kept.                                       *)
(***************************************************************************)
EXTENDS Integers, Sequences, FiniteSets, TLC

VARIABLES
    tasks,            \* TaskQueue.tasks: key -> Task
    task_order,       \* insertion order of the keys of TaskQueue.tasks
    agent,            \* the constructed Agent objects: id -> fields
    agents,           \* TaskOrchestrator.agents: registered ids, in order
    short_term,       \* memory client, short-term partition:  task:{id}
    long_term,        \* memory client, long-term partition:   task:{id}
    task_assignment,  \* memory client, world state: task_assignment:{id}
    task_progress,    \* memory client, world state: task_progress:{id}
    system_status,    \* memory client, world state: system:status
    pc,               \* position of TaskOrchestrator.run in its cycle
    last              \* the last operation performed, with its result

vars == <<tasks, task_order, agent, agents, short_term, long_term,
          task_assignment, task_progress, system_status, pc, last>>

----------------------------------------------------------------------------
(* Bounds *)

MaxTasks == 2        \* tasks created by the orchestrator
MaxQueue == 2        \* tasks held by a TaskQueue driven directly
MaxPriority == 2     \* priorities range over 1..MaxPriority
MaxTime == 2         \* creation times range over 1..MaxTime

Capabilities == {"code_generation", "test_writing"}

\* The capability lists given to tasks (src/main.py, setup_demo_tasks).
TaskCapabilities == {{"code_generation"}, {"test_writing"}}
Statuses == {"pending", "assigned", "completed", "failed"}
Priorities == 1..MaxPriority

----------------------------------------------------------------------------
(* Helpers *)

None == <<>>
Some(v) == <<v>>

Put(f, k, v) == [x \in (DOMAIN f) \cup {k} |-> IF x = k THEN v ELSE f[x]]

Get(f, k) == IF k \in DOMAIN f THEN Some(f[k]) ELSE None

EmptyMap == [x \in {} |-> None]

----------------------------------------------------------------------------
(* Task, src/core/task.py *)

\* x or []: a falsy argument (None, the empty list) becomes a new empty
\* list; lists are sets here, and the argument that was left out is the
\* empty set too.
OrEmptyList(x) == IF x = {} THEN {} ELSE x

\* x or {}: a falsy context becomes a new empty dict.
OrEmptyDict(x) == IF DOMAIN x = {} THEN EmptyMap ELSE x

\* Task.__init__: a new task is pending, unassigned, without result; its
\* id is a new uuid4 and created_at the time of the call, given here as
\* the last two arguments.
TaskInit(description, requirements, required_capabilities, priority, dependencies, context, id, created_at) ==
    [id |-> id,
     description |-> description,
     requirements |-> requirements,
     required_capabilities |-> OrEmptyList(required_capabilities),
     priority |-> priority,
     dependencies |-> OrEmptyList(dependencies),
     context |-> OrEmptyDict(context),
     status |-> "pending",
     created_at |-> created_at,
     assigned_to |-> None,
     result |-> None]

\* A task with an empty description, no requirements and no context, as
\* Task("", []) builds it: the code reads none of the three.
Task(id, required_capabilities, priority, dependencies, created_at) ==
    TaskInit("", <<>>, required_capabilities, priority, dependencies, EmptyMap,
             id, created_at)

\* Task.to_dict: the dictionary holds the task's fields by value.
to_dict(task) ==
    [id |-> task.id,
     description |-> task.description,
     requirements |-> task.requirements,
     required_capabilities |-> task.required_capabilities,
     priority |-> task.priority,
     dependencies |-> task.dependencies,
     context |-> task.context,
     status |-> task.status,
     created_at |-> task.created_at,
     assigned_to |-> task.assigned_to,
     result |-> task.result]

\* Variant: from_dict that leaves the fields __init__ generates as they are.
FromDictKeepsGenerated(data, new_id, now) ==
    TaskInit(data.description, data.requirements, data.required_capabilities,
             data.priority, data.dependencies, data.context, data.id, now)

\* Task.from_dict: a task is constructed from six entries of the
\* dictionary, with the id new_id and the creation time now that __init__
\* generates, and the five generated fields are then overridden.
from_dict(data, new_id, now) ==
    [TaskInit(data.description, data.requirements, data.required_capabilities,
              data.priority, data.dependencies, data.context, new_id, now)
        EXCEPT !.id = data.id,
               !.status = data.status,
               !.created_at = data.created_at,
               !.assigned_to = data.assigned_to,
               !.result = data.result]

----------------------------------------------------------------------------
(* TaskQueue, src/core/task.py *)

\* TaskQueue.add_task: self.tasks[task.id] = task.  A new key goes to the
\* end of the dict; an existing key keeps its place and gets the new value.
add_task_tasks(ts, task) == Put(ts, task.id, task)

add_task_order(ts, ord, task) ==
    IF task.id \in DOMAIN ts THEN ord ELSE Append(ord, task.id)

\* Variant: a dependency that is not in the queue reads as completed.
DepStatusMissingCompleted(ts, dep) ==
    IF dep \in DOMAIN ts THEN ts[dep].status ELSE "completed"

\* self.tasks.get(dep, Task("", [])).status: a missing dependency reads as
\* a fresh task, whose status is pending.
DepStatus(ts, dep) == IF dep \in DOMAIN ts THEN ts[dep].status ELSE "pending"

\* Variant: a dependency on a task that is not in the queue counts as met.
DepsUnmetMissingOk(ts, task) ==
    \E dep \in task.dependencies : dep \in DOMAIN ts /\ ts[dep].status # "completed"

\* any(... .status != "completed" for dep in task.dependencies)
DepsUnmet(ts, task) ==
    \E dep \in task.dependencies : DepStatus(ts, dep) # "completed"

\* The three filters of the loop of get_next_task.
Available(ts, k, agent_capabilities) ==
    /\ ts[k].status = "pending"
    /\ ~DepsUnmet(ts, ts[k])
    /\ \A cap \in ts[k].required_capabilities : cap \in agent_capabilities

\* available_tasks, in the iteration order of self.tasks.values()
available_tasks(ts, ord, agent_capabilities) ==
    SelectSeq(ord, LAMBDA k : Available(ts, k, agent_capabilities))

\* Insert key k into a list already sorted by descending priority, after
\* every element whose priority is at least that of k (stable).
RECURSIVE InsertByPriority(_, _, _)
InsertByPriority(ts, sorted, k) ==
    IF sorted = <<>> THEN <<k>>
    ELSE IF ts[Head(sorted)].priority >= ts[k].priority
         THEN <<Head(sorted)>> \o InsertByPriority(ts, Tail(sorted), k)
         ELSE <<k>> \o sorted

\* Variant: the sort without reverse=True, lowest priority first.
RECURSIVE SortAscending(_, _)
SortAscending(ts, s) ==
    IF s = <<>> THEN <<>>
    ELSE LET rest == SortAscending(ts, Tail(s))
             lower == SelectSeq(rest, LAMBDA k : ts[k].priority < ts[Head(s)].priority)
             upper == SelectSeq(rest, LAMBDA k : ts[k].priority >= ts[Head(s)].priority)
         IN  lower \o <<Head(s)>> \o upper

\* Variant: an unstable sort that puts the later of two equal tasks first.
RECURSIVE SortLastWins(_, _)
SortLastWins(ts, s) ==
    IF s = <<>> THEN <<>>
    ELSE LET rest == SortLastWins(ts, Tail(s))
             upper == SelectSeq(rest, LAMBDA k : ts[k].priority >= ts[Head(s)].priority)
             lower == SelectSeq(rest, LAMBDA k : ts[k].priority < ts[Head(s)].priority)
         IN  upper \o <<Head(s)>> \o lower

\* sorted(available_tasks, key=lambda t: t.priority, reverse=True): a stable
\* sort, so tasks of equal priority keep the order they have in the list.
RECURSIVE sorted_by_priority(_, _)
sorted_by_priority(ts, s) ==
    IF s = <<>> THEN <<>>
    ELSE InsertByPriority(ts, sorted_by_priority(ts, SubSeq(s, 1, Len(s) - 1)), s[Len(s)])

\* TaskQueue.get_next_task: the key of the returned task, or None.
get_next_task(ts, ord, agent_capabilities) ==
    LET av == available_tasks(ts, ord, agent_capabilities)
    IN  IF av = <<>> THEN None
        ELSE Some(sorted_by_priority(ts, av)[1])

\* TaskQueue.update_task: the return value, and the queue after the call.
\* Every key of updates that names an attribute of the task is set.
update_task_ret(ts, task_id) == task_id \in DOMAIN ts

\* Variant: an update of an absent id stores a new task under it.
UpdateTaskUpsert(ts, task_id, updates) ==
    LET present == IF task_id \in DOMAIN ts THEN ts
                   ELSE Put(ts, task_id, Task(task_id, {}, 1, {}, 1))
    IN  [present EXCEPT ![task_id] =
            [f \in DOMAIN @ |-> IF f \in DOMAIN updates THEN updates[f] ELSE @[f]]]

update_task(ts, task_id, updates) ==
    IF task_id \notin DOMAIN ts THEN ts
    ELSE [ts EXCEPT ![task_id] =
            [f \in DOMAIN @ |-> IF f \in DOMAIN updates THEN updates[f] ELSE @[f]]]

----------------------------------------------------------------------------
(* Agent, src/core/agent.py *)

\* The agents that are constructed, with the capabilities given to
\* Agent.__init__.  A new agent is idle and holds no task.
AgentCapabilities ==
    [a1 |-> {"code_generation"},
     a2 |-> {"code_generation", "test_writing"}]

AgentIds == DOMAIN AgentCapabilities

Agent(capabilities) ==
    [capabilities |-> capabilities, status |-> "idle", current_task |-> None]

\* The calls of the memory client that Agent.assign_task makes, either of
\* which may raise, and "none" when neither does.
AssignFailures == {"none", "store_short_term", "update_world_state"}

\* not (required_capabilities and not all(cap in self.capabilities ...))
HasCapabilities(capabilities, task) ==
    ~(/\ task.required_capabilities # {}
      /\ ~(\A cap \in task.required_capabilities : cap \in capabilities))

\* Variant: assign_task without its two early returns.
AssignRefusedNever(ag, task) == FALSE

\* The two early returns of Agent.assign_task.
AssignRefused(ag, task) ==
    \/ ag.status # "idle"
    \/ ~HasCapabilities(ag.capabilities, task)

\* Variant: assign_task without the except clause around the publication of
\* the assignment: the call ends as if the publication had been made.
AssignTaskPublishUncaught(M, a, task, fail) ==
    IF AssignRefused(M.agent[a], task) \/ fail = "store_short_term"
    THEN [M EXCEPT !.ret = FALSE]
    ELSE [M EXCEPT !.ret = TRUE,
                   !.short_term = Put(@, task.id, task),
                   !.agent[a].current_task = Some(task),
                   !.agent[a].status = "working",
                   !.task_assignment =
                       IF fail = "none"
                       THEN Put(@, task.id, [status |-> "assigned"])
                       ELSE @]

\* Variant: assign_task that sets the status and forgets current_task.
AssignTaskStatusOnly(M, a, task, fail) ==
    IF AssignRefused(M.agent[a], task) \/ fail = "store_short_term"
    THEN [M EXCEPT !.ret = FALSE]
    ELSE [M EXCEPT !.ret = (fail = "none"),
                   !.short_term = Put(@, task.id, task),
                   !.agent[a].status = "working",
                   !.task_assignment =
                       IF fail = "none"
                       THEN Put(@, task.id, [status |-> "assigned"])
                       ELSE @]

\* Agent.assign_task on agent a.  M holds the agents and the memory
\* partitions the call touches; the result is M after the call, with the
\* return value in M.ret.  The except clause turns a raising memory call
\* into the return value False, keeping what was assigned before the raise.
assign_task(M, a, task, fail) ==
    IF AssignRefused(M.agent[a], task) THEN [M EXCEPT !.ret = FALSE]
    ELSE IF fail = "store_short_term" THEN [M EXCEPT !.ret = FALSE]
    ELSE LET stored == [M EXCEPT !.short_term = Put(@, task.id, task),
                                 !.agent[a].current_task = Some(task),
                                 !.agent[a].status = "working"]
         IN  IF fail = "update_world_state" THEN [stored EXCEPT !.ret = FALSE]
             ELSE [stored EXCEPT
                     !.task_assignment =
                         Put(@, task.id, [status |-> "assigned"]),
                     !.ret = TRUE]

\* The statuses a progress report carries.
ProgressStatuses == {"running", "completed", "failed"}

ReportFailures == {"none", "update_world_state"}

\* Variant: only completed frees the agent.
TerminalStatusesCompletedOnly == {"completed"}

\* progress.get("status") in ["completed", "failed"]
TerminalStatuses == {"completed", "failed"}

\* Variant: report_progress without the check for a current task; the
\* report of an agent without task is written under the key 0.
ReportProgressUnguarded(M, a, progress, fail) ==
    IF fail = "update_world_state" THEN M
    ELSE LET stamped == [status |-> progress.status]
             key == IF M.agent[a].current_task = None THEN 0
                    ELSE M.agent[a].current_task[1].id
             written == [M EXCEPT !.task_progress = Put(@, key, stamped)]
         IN  IF progress.status \in {"completed", "failed"}
             THEN [written EXCEPT !.agent[a].status = "idle",
                                  !.agent[a].current_task = None]
             ELSE written

\* Variant: a terminal report frees every agent that holds the task.
ReportProgressFreesHolders(M, a, progress, fail) ==
    IF M.agent[a].current_task = None THEN M
    ELSE IF fail = "update_world_state" THEN M
    ELSE LET id == M.agent[a].current_task[1].id
             written == [M EXCEPT !.task_progress =
                             Put(@, id, [status |-> progress.status])]
         IN  IF progress.status \in {"completed", "failed"}
             THEN [written EXCEPT !.agent =
                      [b \in DOMAIN @ |->
                          IF @[b].current_task # None /\ @[b].current_task[1].id = id
                          THEN [@[b] EXCEPT !.status = "idle", !.current_task = None]
                          ELSE @[b]]]
             ELSE written

\* Agent.report_progress on agent a: M after the call.  The report is
\* written under the id of the current task; a terminal status frees the
\* agent.  A raising write is caught and leaves the agent as it was.
report_progress(M, a, progress, fail) ==
    IF M.agent[a].current_task = None THEN M
    ELSE IF fail = "update_world_state" THEN M
    ELSE LET stamped == [status |-> progress.status]
             written == [M EXCEPT !.task_progress =
                             Put(@, M.agent[a].current_task[1].id, stamped)]
         IN  IF progress.status \in TerminalStatuses
             THEN [written EXCEPT !.agent[a].status = "idle",
                                  !.agent[a].current_task = None]
             ELSE written

----------------------------------------------------------------------------
(* TaskOrchestrator, src/core/orchestrator.py *)

\* An id that create_task never generates: a dependency on it is a
\* dependency on a task that is not in the queue.
MissingId == MaxTasks + 1

\* The dependency lists given to create_task: ids of tasks created before,
\* or the id of no task.
CreateDependencies == (SUBSET DOMAIN tasks) \cup {{MissingId}}

\* Variant: the pass that marks the task assigned and leaves assigned_to.
AssignOneUnowned(S, a, fail) ==
    IF S.agent[a].status # "idle" THEN S
    ELSE LET next == get_next_task(S.tasks, S.task_order, S.agent[a].capabilities)
         IN  IF next = None THEN S
             ELSE LET M == assign_task(S, a, to_dict(S.tasks[next[1]]), fail)
                  IN  IF M.ret
                      THEN [M EXCEPT !.tasks[next[1]].status = "assigned",
                                     !.assigned_count = @ + 1]
                      ELSE M

\* Variant: the pass that counts every agent it offered a task to.
AssignOneCountsOffers(S, a, fail) ==
    IF S.agent[a].status # "idle" THEN S
    ELSE LET next == get_next_task(S.tasks, S.task_order, S.agent[a].capabilities)
         IN  IF next = None THEN S
             ELSE LET M == assign_task(S, a, to_dict(S.tasks[next[1]]), fail)
                  IN  IF M.ret
                      THEN [M EXCEPT !.tasks[next[1]].status = "assigned",
                                     !.tasks[next[1]].assigned_to = Some(a),
                                     !.assigned_count = @ + 1]
                      ELSE [M EXCEPT !.assigned_count = @ + 1]

\* Variant: the pass that does not mark the task assigned in the queue.
AssignOneKeepsPending(S, a, fail) ==
    IF S.agent[a].status # "idle" THEN S
    ELSE LET next == get_next_task(S.tasks, S.task_order, S.agent[a].capabilities)
         IN  IF next = None THEN S
             ELSE LET M == assign_task(S, a, to_dict(S.tasks[next[1]]), fail)
                  IN  IF M.ret THEN [M EXCEPT !.assigned_count = @ + 1] ELSE M

\* One pass of the loop of assign_tasks, for agent a.  S holds the queue,
\* the agents, the memory partitions assign_task writes and the count.
\* The task is marked on the object and again through update_task.
AssignOne(S, a, fail) ==
    IF S.agent[a].status # "idle" THEN S
    ELSE LET next == get_next_task(S.tasks, S.task_order, S.agent[a].capabilities)
         IN  IF next = None THEN S
             ELSE LET task == S.tasks[next[1]]
                      M == assign_task(S, a, to_dict(task), fail)
                  IN  IF M.ret
                      THEN [M EXCEPT
                              !.tasks = update_task(
                                  [@ EXCEPT ![next[1]].status = "assigned",
                                            ![next[1]].assigned_to = Some(a)],
                                  task.id,
                                  [status |-> "assigned", assigned_to |-> Some(a)]),
                              !.assigned_count = @ + 1]
                      ELSE M

\* Variant: the loop ends with the first assignment it makes.
RECURSIVE AssignTasksFirstOnly(_, _, _, _)
AssignTasksFirstOnly(S, registry, i, fails) ==
    IF i > Len(registry) \/ S.assigned_count > 0 THEN S
    ELSE AssignTasksFirstOnly(AssignOne(S, registry[i], fails[registry[i]]),
                              registry, i + 1, fails)

\* TaskOrchestrator.assign_tasks: the loop over self.agents.values(), in
\* registration order, from the i-th agent on.  fails[a] is the memory call
\* that raises when agent a is given a task.
RECURSIVE assign_tasks(_, _, _, _)
assign_tasks(S, registry, i, fails) ==
    IF i > Len(registry) THEN S
    ELSE assign_tasks(AssignOne(S, registry[i], fails[registry[i]]),
                      registry, i + 1, fails)

\* The calls of the memory client that one pass of the loop of
\* monitor_progress makes, any of which may raise.
MonitorFailures == {"none", "get_world_state", "get_long_term", "store_long_term"}

\* The durable snapshot after a handler has changed it.
UpdatedSnapshot(task_data, status, result) ==
    Put(Put(task_data, "status", status), "result", Some(result))

\* Variant: the handler writes a snapshot also where there was none.
HandleTaskCreatesSnapshot(S, task_id, status, result, fail) ==
    LET updated == [S EXCEPT !.tasks = update_task(@, task_id,
                                 [status |-> status, result |-> Some(result)])]
    IN  IF fail # "none" THEN [updated EXCEPT !.raised = TRUE]
        ELSE [updated EXCEPT !.long_term =
                 Put(@, task_id,
                     UpdatedSnapshot(IF task_id \in DOMAIN @ THEN @[task_id]
                                     ELSE EmptyMap, status, result))]

\* handle_completed_task and handle_failed_task: the queue is updated, then
\* the durable snapshot is read, changed and written back if there is one.
\* A raising memory call ends the handler and the pass (S.raised).
HandleTask(S, task_id, status, result, fail) ==
    LET updated == [S EXCEPT !.tasks = update_task(@, task_id,
                                 [status |-> status, result |-> Some(result)])]
    IN  IF fail = "get_long_term" THEN [updated EXCEPT !.raised = TRUE]
        ELSE LET task_data == Get(updated.long_term, task_id)
             IN  IF task_data = None THEN updated
                 ELSE IF fail = "store_long_term" THEN [updated EXCEPT !.raised = TRUE]
                 ELSE [updated EXCEPT !.long_term =
                         Put(@, task_id,
                             UpdatedSnapshot(task_data[1], status, result))]

handle_completed_task(S, task_id, result, fail) ==
    HandleTask(S, task_id, "completed", result, fail)

handle_failed_task(S, task_id, error_data, fail) ==
    HandleTask(S, task_id, "failed", error_data, fail)

\* Variant: a record of any status is taken for a completion.
MonitorOneAnyStatus(S, ag, progress_records, fail) ==
    IF ag.status # "working" \/ ag.current_task = None THEN S
    ELSE IF fail = "get_world_state" THEN [S EXCEPT !.raised = TRUE]
    ELSE LET task_id == ag.current_task[1].id
             progress == Get(progress_records, task_id)
         IN  IF progress = None THEN S
             ELSE handle_completed_task(S, task_id, progress[1], fail)

\* One pass of the loop of monitor_progress, for an agent with fields ag.
MonitorOne(S, ag, progress_records, fail) ==
    IF ag.status # "working" \/ ag.current_task = None THEN S
    ELSE IF fail = "get_world_state" THEN [S EXCEPT !.raised = TRUE]
    ELSE LET task_id == ag.current_task[1].id
             progress == Get(progress_records, task_id)
         IN  IF progress = None THEN S
             ELSE IF progress[1].status = "completed"
                  THEN handle_completed_task(S, task_id, progress[1], fail)
             ELSE IF progress[1].status = "failed"
                  THEN handle_failed_task(S, task_id, progress[1], fail)
             ELSE S

\* TaskOrchestrator.monitor_progress: the loop over self.agents.items(),
\* from the i-th agent on; an exception ends the loop.
RECURSIVE monitor_progress(_, _, _, _, _, _)
monitor_progress(S, registry, i, ags, progress_records, fails) ==
    IF i > Len(registry) \/ S.raised THEN S
    ELSE monitor_progress(
             MonitorOne(S, ags[registry[i]], progress_records, fails[registry[i]]),
             registry, i + 1, ags, progress_records, fails)

----------------------------------------------------------------------------
(* The state after construction (main, src/main.py): an empty queue, an    *)
(* empty memory client, the agents constructed idle and registered with    *)
(* the orchestrator, the run loop at the top of a cycle.                   *)

\* TaskOrchestrator.register_agent, called for each agent in turn.
RegisteredAgents == <<"a1", "a2">>

Init ==
    /\ tasks = EmptyMap
    /\ task_order = <<>>
    /\ agent = [a \in AgentIds |-> Agent(AgentCapabilities[a])]
    /\ agents = RegisteredAgents
    /\ short_term = EmptyMap
    /\ long_term = EmptyMap
    /\ task_assignment = EmptyMap
    /\ task_progress = EmptyMap
    /\ system_status = None
    /\ pc = "assign"
    /\ last = [op |-> "init"]

----------------------------------------------------------------------------
(* The TaskQueue driven directly through its three methods. *)

QueueIds == 1..MaxQueue

\* The dependency lists given to tasks: none, or one id, which may be the
\* id of a task that is not in the queue.
QueueDependencies == {{}} \cup {{d} : d \in QueueIds}

QueueAddTask ==
    \E id \in QueueIds, caps \in TaskCapabilities, priority \in Priorities,
       deps \in QueueDependencies, created_at \in 1..MaxTime :
        LET task == Task(id, caps, priority, deps, created_at)
        IN  /\ tasks' = add_task_tasks(tasks, task)
            /\ task_order' = add_task_order(tasks, task_order, task)
            /\ last' = [op |-> "add_task"]
            /\ UNCHANGED <<agent, agents, short_term, long_term, task_assignment,
                           task_progress, system_status, pc>>

QueueUpdateTask ==
    \E id \in QueueIds, status \in Statuses :
        /\ tasks' = update_task(tasks, id, [status |-> status])
        /\ last' = [op |-> "update_task"]
        /\ UNCHANGED <<task_order, agent, agents, short_term, long_term,
                       task_assignment, task_progress, system_status, pc>>

QueueGetNextTask ==
    \E caps \in SUBSET Capabilities :
        /\ last' = [op |-> "get_next_task", agent_capabilities |-> caps,
                    ret |-> get_next_task(tasks, task_order, caps)]
        /\ UNCHANGED <<tasks, task_order, agent, agents, short_term, long_term,
                       task_assignment, task_progress, system_status, pc>>

QueueNext == QueueAddTask \/ QueueUpdateTask \/ QueueGetNextTask

QueueSpec == Init /\ [][QueueNext]_vars

----------------------------------------------------------------------------
(* The TaskQueue driven through add_task and through update_task with any  *)
(* mapping of fields, as a caller of the queue may drive it.               *)

\* The tasks added: one per id, as Task.__init__ leaves them.
UpdateAddTask ==
    \E id \in QueueIds :
        LET task == Task(id, {"code_generation"}, 1, {}, 1)
        IN  /\ tasks' = add_task_tasks(tasks, task)
            /\ task_order' = add_task_order(tasks, task_order, task)
            /\ last' = [op |-> "add_task"]
            /\ UNCHANGED <<agent, agents, short_term, long_term, task_assignment,
                           task_progress, system_status, pc>>

\* The mappings handed to update_task: those the orchestrator hands it
\* (orchestrator.py, assign_tasks and the two handlers), mappings that name
\* other attributes of a task, and one that names no attribute.
UpdateFields ==
    {[status |-> "assigned", assigned_to |-> Some("a1")],
     [status |-> "completed", result |-> Some([status |-> "completed"])],
     [status |-> "failed", result |-> Some([status |-> "failed"])]}
    \cup {[id |-> id] : id \in QueueIds}
    \cup {[priority |-> priority] : priority \in Priorities}
    \cup {[dependencies |-> {id}] : id \in QueueIds}
    \cup {[required_capabilities |-> {"test_writing"}], [owner |-> "a1"]}

\* The ids handed to update_task: the keys the queue may hold.
UpdateUpdateTask ==
    \E task_id \in QueueIds, updates \in UpdateFields :
        /\ tasks' = update_task(tasks, task_id, updates)
        /\ last' = [op |-> "update_task", task_id |-> task_id,
                    ret |-> update_task_ret(tasks, task_id)]
        /\ UNCHANGED <<task_order, agent, agents, short_term, long_term,
                       task_assignment, task_progress, system_status, pc>>

UpdateNext == UpdateAddTask \/ UpdateUpdateTask

UpdateSpec == Init /\ [][UpdateNext]_vars

----------------------------------------------------------------------------
(* Tasks constructed with any arguments, moved through their lifecycle by  *)
(* the updates the orchestrator makes, and at any time converted to a      *)
(* dictionary and back.                                                    *)

\* The arguments given to Task.__init__ besides those of QueueSpec: the
\* descriptions, the requirement lists and the contexts, with the falsy
\* value of each among them.
Descriptions == {"", "generate code"}
RequirementLists == {<<>>, <<"documented">>}
Contexts == {EmptyMap, [language |-> "python"]}

\* The id and the creation time __init__ generates inside from_dict: a
\* uuid4 no task has, a time later than every creation time.
NewId == 0
Now == MaxTime + 1

RoundTripCreate ==
    \E description \in Descriptions, requirements \in RequirementLists,
       caps \in {{}} \cup TaskCapabilities, context \in Contexts :
        LET id == Len(task_order) + 1
            task == TaskInit(description, requirements, caps, 1,
                             IF id = 1 THEN {} ELSE {1}, context, id, id)
        IN  /\ Len(task_order) < MaxQueue
            /\ tasks' = add_task_tasks(tasks, task)
            /\ task_order' = add_task_order(tasks, task_order, task)
            /\ last' = [op |-> "add_task"]
            /\ UNCHANGED <<agent, agents, short_term, long_term, task_assignment,
                           task_progress, system_status, pc>>

\* The updates the orchestrator makes (assign_tasks and the two handlers).
LifecycleUpdates ==
    {[status |-> "assigned", assigned_to |-> Some("a1")],
     [status |-> "completed", result |-> Some([status |-> "completed"])],
     [status |-> "failed", result |-> Some([status |-> "failed"])]}

RoundTripUpdate ==
    \E id \in DOMAIN tasks, updates \in LifecycleUpdates :
        /\ tasks' = update_task(tasks, id, updates)
        /\ last' = [op |-> "update_task"]
        /\ UNCHANGED <<task_order, agent, agents, short_term, long_term,
                       task_assignment, task_progress, system_status, pc>>

RoundTripFromDict ==
    \E id \in DOMAIN tasks :
        /\ last' = [op |-> "from_dict", task |-> tasks[id],
                    ret |-> from_dict(to_dict(tasks[id]), NewId, Now)]
        /\ UNCHANGED <<tasks, task_order, agent, agents, short_term, long_term,
                       task_assignment, task_progress, system_status, pc>>

RoundTripNext == RoundTripCreate \/ RoundTripUpdate \/ RoundTripFromDict

RoundTripSpec == Init /\ [][RoundTripNext]_vars

----------------------------------------------------------------------------
(* The agents driven directly through assign_task and report_progress,     *)
(* with a memory client whose calls may raise.                             *)

\* The task dictionaries handed to assign_task: one per id, the odd ids
\* requiring code_generation and the even ids test_writing.
TaskDicts ==
    {to_dict(Task(id, IF id % 2 = 1 THEN {"code_generation"} ELSE {"test_writing"},
                  1, {}, 1)) : id \in QueueIds}

\* A call of assign_task on agent a in which the memory call fail raises.
AgentAssignTaskWith(a, task, fail) ==
    LET M == assign_task([agent |-> agent, short_term |-> short_term,
                          task_assignment |-> task_assignment, ret |-> FALSE],
                         a, task, fail)
    IN  /\ agent' = M.agent
        /\ short_term' = M.short_term
        /\ task_assignment' = M.task_assignment
        /\ last' = [op |-> "assign_task", agent |-> a, task |-> task,
                    ret |-> M.ret]
        /\ UNCHANGED <<tasks, task_order, agents, long_term, task_progress,
                       system_status, pc>>

AgentAssignTask ==
    \E a \in AgentIds, task \in TaskDicts, fail \in AssignFailures :
        AgentAssignTaskWith(a, task, fail)

AgentReportProgress ==
    \E a \in AgentIds, status \in ProgressStatuses, fail \in ReportFailures :
        LET M == report_progress([agent |-> agent, task_progress |-> task_progress],
                                 a, [status |-> status], fail)
        IN  /\ agent' = M.agent
            /\ task_progress' = M.task_progress
            /\ last' = [op |-> "report_progress", agent |-> a, status |-> status,
                        raised |-> (agent[a].current_task # None
                                    /\ fail = "update_world_state")]
            /\ UNCHANGED <<tasks, task_order, agents, short_term, long_term,
                           task_assignment, system_status, pc>>

AgentNext == AgentAssignTask \/ AgentReportProgress

AgentSpec == Init /\ [][AgentNext]_vars

----------------------------------------------------------------------------
(* The orchestrator with its agents, driven as run and the example driver  *)
(* (examples/example_usage.py) drive it: a cycle is assign_tasks followed  *)
(* by monitor_progress, and the loop then sleeps.  No call in a cycle      *)
(* suspends, so everything else happens while the loop sleeps (pc =        *)
(* "assign", the loop about to start a cycle): tasks are created, agents   *)
(* report progress, progress records are written to world state.  The      *)
(* calls of the memory client on world state and short-term memory may     *)
(* raise.                                                                  *)

\* TaskOrchestrator.create_task: the task gets a fresh id and the next
\* creation time, is added to the queue and then stored in long-term
\* memory; if that store raises the task is in the queue without snapshot.
CreateTaskWith(caps, priority, deps, fail) ==
    LET id == Len(task_order) + 1
        task == Task(id, caps, priority, deps, id)
    IN  /\ Len(task_order) < MaxTasks
        /\ tasks' = add_task_tasks(tasks, task)
        /\ task_order' = add_task_order(tasks, task_order, task)
        /\ long_term' = IF fail = "none" THEN Put(long_term, id, to_dict(task))
                        ELSE long_term
        /\ last' = [op |-> "other"]
        /\ UNCHANGED <<agent, agents, short_term, task_assignment,
                       task_progress, system_status, pc>>

CreateTask ==
    /\ pc = "assign"
    /\ \E caps \in TaskCapabilities, priority \in Priorities,
          deps \in CreateDependencies :
           CreateTaskWith(caps, priority, deps, "none")

AssignTasksWith(fails) ==
    LET S == assign_tasks([tasks |-> tasks, task_order |-> task_order,
                           agent |-> agent, short_term |-> short_term,
                           task_assignment |-> task_assignment,
                           ret |-> FALSE, assigned_count |-> 0],
                          agents, 1, fails)
    IN  /\ tasks' = S.tasks
        /\ agent' = S.agent
        /\ short_term' = S.short_term
        /\ task_assignment' = S.task_assignment
        /\ last' = [op |-> "assign_tasks", ret |-> S.assigned_count]
        /\ UNCHANGED <<task_order, agents, long_term, task_progress,
                       system_status>>

AssignTasks ==
    /\ pc = "assign"
    /\ pc' = "monitor"
    /\ \E fails \in [AgentIds -> AssignFailures] : AssignTasksWith(fails)

MonitorProgressWith(fails) ==
    LET S == monitor_progress([tasks |-> tasks, long_term |-> long_term,
                               raised |-> FALSE],
                              agents, 1, agent, task_progress, fails)
    IN  /\ tasks' = S.tasks
        /\ long_term' = S.long_term
        /\ last' = [op |-> "other"]
        /\ UNCHANGED <<task_order, agent, agents, short_term, task_assignment,
                       task_progress, system_status>>

\* The failures of a pass in which only the read of world state may raise.
WorldStateFailures == {"none", "get_world_state"}

MonitorProgress ==
    /\ pc = "monitor"
    /\ pc' = "assign"
    /\ \E fails \in [AgentIds -> WorldStateFailures] : MonitorProgressWith(fails)

\* An agent's execute() ends a piece of work and reports progress.
ReportProgressWith(a, status, fail) ==
    LET M == report_progress([agent |-> agent, task_progress |-> task_progress],
                             a, [status |-> status], fail)
    IN  /\ agent' = M.agent
        /\ task_progress' = M.task_progress
        /\ last' = [op |-> "other"]
        /\ UNCHANGED <<tasks, task_order, agents, short_term, long_term,
                       task_assignment, system_status, pc>>

ReportProgress ==
    /\ pc = "assign"
    /\ \E a \in AgentIds, status \in ProgressStatuses, fail \in ReportFailures :
           ReportProgressWith(a, status, fail)

\* A progress record for a task is written to world state by another
\* client of the memory store (update_world_state, src/main.py).
WriteProgressRecord ==
    /\ pc = "assign"
    /\ \E id \in DOMAIN tasks, status \in TerminalStatuses :
        /\ task_progress' = Put(task_progress, id, [status |-> status])
        /\ last' = [op |-> "other"]
        /\ UNCHANGED <<tasks, task_order, agent, agents, short_term, long_term,
                       task_assignment, system_status, pc>>

Next ==
    \/ CreateTask
    \/ AssignTasks
    \/ MonitorProgress
    \/ ReportProgress
    \/ WriteProgressRecord

Spec == Init /\ [][Next]_vars

----------------------------------------------------------------------------
(* The two handlers of the orchestrator called directly, on tasks created  *)
(* by create_task with a long-term memory whose calls may raise: a task    *)
(* whose snapshot could not be stored is in the queue without snapshot.    *)

\* The calls of long-term memory that create_task and a handler make.
CreateFailures == {"none", "store_long_term"}
HandlerFailures == {"none", "get_long_term", "store_long_term"}

HandlerCreateTask ==
    \E caps \in TaskCapabilities, priority \in Priorities, fail \in CreateFailures :
        CreateTaskWith(caps, priority, {}, fail)

\* One call of a handler: status is the status the handler sets.
HandlerCall(task_id, status, fail) ==
    LET before == [tasks |-> tasks, long_term |-> long_term, raised |-> FALSE]
        result == [status |-> status]
        S == IF status = "completed"
             THEN handle_completed_task(before, task_id, result, fail)
             ELSE handle_failed_task(before, task_id, result, fail)
    IN  /\ tasks' = S.tasks
        /\ long_term' = S.long_term
        /\ last' = [op |-> "handle", task_id |-> task_id, status |-> status,
                    result |-> result, raised |-> S.raised]
        /\ UNCHANGED <<task_order, agent, agents, short_term, task_assignment,
                       task_progress, system_status, pc>>

HandleCompletedTask ==
    \E task_id \in DOMAIN tasks, fail \in HandlerFailures :
        HandlerCall(task_id, "completed", fail)

HandleFailedTask ==
    \E task_id \in DOMAIN tasks, fail \in HandlerFailures :
        HandlerCall(task_id, "failed", fail)

HandlerNext == HandlerCreateTask \/ HandleCompletedTask \/ HandleFailedTask

HandlerSpec == Init /\ [][HandlerNext]_vars

----------------------------------------------------------------------------
(* TaskOrchestrator.run as main starts it (src/main.py): the demonstration *)
(* tasks may have been set up, and each cycle is assign_tasks,             *)
(* monitor_progress, update_system_state and a sleep.  An Exception raised *)
(* in a cycle is caught, the loop sleeps and goes on.  pc = "assign" is    *)
(* the loop asleep, about to start a cycle: there progress records are     *)
(* written to world state (main calls no agent's execute, so the records   *)
(* come from other clients of the store), and a cancellation of the loop's *)
(* task is delivered (CancelledError is raised by asyncio.sleep, the only  *)
(* call of the loop that suspends).  A KeyboardInterrupt is raised         *)
(* wherever the interpreter is when the signal arrives, which may be       *)
(* inside a cycle; neither is an Exception, so both end the loop (pc =     *)
(* "cancelled").                                                           *)

\* setup_demo_tasks: a code generation task of priority 2 and a test
\* writing task of priority 1 that depends on it, each stored in long-term
\* memory.
SetupDemoTasks ==
    LET code_task == Task(1, {"code_generation"}, 2, {}, 1)
        test_task == Task(2, {"test_writing"}, 1, {1}, 2)
        first == add_task_tasks(tasks, code_task)
    IN  /\ pc = "assign"
        /\ task_order = <<>>
        /\ last.op = "init"
        /\ tasks' = add_task_tasks(first, test_task)
        /\ task_order' = add_task_order(first,
                             add_task_order(tasks, task_order, code_task), test_task)
        /\ long_term' = Put(Put(long_term, 1, to_dict(code_task)),
                            2, to_dict(test_task))
        /\ last' = [op |-> "other"]
        /\ UNCHANGED <<agent, agents, short_term, task_assignment,
                       task_progress, system_status, pc>>

\* Variant: an exception in a cycle ends the loop.
AfterExceptionStops == "stopped"

\* except Exception: the error is logged, the loop sleeps and starts the
\* next cycle.
AfterException == "assign"

\* monitor_progress in the run loop: any of its memory calls may raise; the
\* exception leaves the try block, so update_system_state is skipped.
RunMonitorProgress ==
    /\ pc = "monitor"
    /\ \E fails \in [AgentIds -> MonitorFailures] :
          LET S == monitor_progress([tasks |-> tasks, long_term |-> long_term,
                                     raised |-> FALSE],
                                    agents, 1, agent, task_progress, fails)
          IN  /\ tasks' = S.tasks
              /\ long_term' = S.long_term
              /\ pc' = IF S.raised THEN AfterException ELSE "update"
              /\ last' = [op |-> "monitor_progress", raised |-> S.raised]
    /\ UNCHANGED <<task_order, agent, agents, short_term, task_assignment,
                   task_progress, system_status>>

\* The counts update_system_state writes under system:status.
SystemStatus(ts, ags, registry) ==
    [tasks |-> [s \in Statuses |->
                   Cardinality({k \in DOMAIN ts : ts[k].status = s})],
     agents |-> [s \in {"idle", "working"} |->
                   Cardinality({i \in 1..Len(registry) : ags[registry[i]].status = s})]]

\* update_system_state in the run loop, then the sleep; the write to world
\* state may raise.
RunUpdateSystemState ==
    /\ pc = "update"
    /\ \E fail \in ReportFailures :
          /\ system_status' = IF fail = "none"
                              THEN Some(SystemStatus(tasks, agent, agents))
                              ELSE system_status
          /\ pc' = IF fail = "none" THEN "assign" ELSE AfterException
          /\ last' = [op |-> "update_system_state", raised |-> (fail # "none")]
    /\ UNCHANGED <<tasks, task_order, agent, agents, short_term, long_term,
                   task_assignment, task_progress>>

\* The task of the loop is cancelled: CancelledError is raised by the
\* sleep.
Cancel ==
    /\ pc = "assign"
    /\ pc' = "cancelled"
    /\ last' = [op |-> "other"]
    /\ UNCHANGED <<tasks, task_order, agent, agents, short_term, long_term,
                   task_assignment, task_progress, system_status>>

\* KeyboardInterrupt is raised while a cycle runs (main catches it and
\* logs the shutdown).
Interrupt ==
    /\ pc \in {"monitor", "update"}
    /\ pc' = "cancelled"
    /\ last' = [op |-> "other"]
    /\ UNCHANGED <<tasks, task_order, agent, agents, short_term, long_term,
                   task_assignment, task_progress, system_status>>

RunNext ==
    \/ SetupDemoTasks
    \/ AssignTasks
    \/ RunMonitorProgress
    \/ RunUpdateSystemState
    \/ WriteProgressRecord
    \/ Cancel
    \/ Interrupt

\* A step of the run loop: the start of a cycle, the end of
\* monitor_progress, the end of update_system_state.
LoopStep ==
    \/ pc = "assign" /\ pc' = "monitor"
    \/ pc = "monitor" /\ pc' \in {"update", AfterException}
    \/ pc = "update" /\ pc' \in {"assign", AfterException}

\* The event loop resumes the run loop when its sleep is over, and a cycle
\* that has started runs each of its steps: the loop keeps taking steps
\* for as long as it can take one.
RunSpec ==
    /\ Init
    /\ [][RunNext]_vars
    /\ WF_pc(LoopStep)

----------------------------------------------------------------------------
(* Properties of TaskQueue.get_next_task, checked under QueueSpec. *)

\* The candidate set of a capability set: the pending tasks whose
\* dependencies are all completed tasks of the queue and whose required
\* capabilities are within the set.
Candidates(caps) ==
    {k \in DOMAIN tasks :
        /\ tasks[k].status = "pending"
        /\ \A d \in tasks[k].dependencies :
              d \in DOMAIN tasks /\ tasks[d].status = "completed"
        /\ tasks[k].required_capabilities \subseteq caps}

\* The place of key k in the insertion order of the queue.
Position(k) == CHOOSE i \in 1..Len(task_order) : task_order[i] = k

Returned == last.op = "get_next_task" /\ last.ret # None

\* C2: get_next_task(caps) returns a task only if the task is pending, all
\* its required capabilities are in caps, and every id in its dependencies
\* is the id of a task of the queue whose status is completed.
C2_ReturnedTaskIsEligible ==
    Returned =>
        LET t == tasks[last.ret[1]]
        IN  /\ t.status = "pending"
            /\ t.required_capabilities \subseteq last.agent_capabilities
            /\ \A d \in t.dependencies :
                  d \in DOMAIN tasks /\ tasks[d].status = "completed"

\* A task with a dependency was returned.
C2_Witness == Returned /\ tasks[last.ret[1]].dependencies # {}

\* C3: when the candidate set is not empty get_next_task returns a
\* candidate whose priority is at least that of every candidate, and it
\* returns None exactly when the candidate set is empty.
C3_ReturnsMaxPriorityCandidate ==
    last.op = "get_next_task" =>
        LET c == Candidates(last.agent_capabilities)
        IN  /\ (last.ret = None) <=> (c = {})
            /\ c # {} =>
                 /\ last.ret # None
                 /\ last.ret[1] \in c
                 /\ \A k \in c : tasks[last.ret[1]].priority >= tasks[k].priority

\* A task was returned although a candidate of lower priority comes before
\* it in the queue.
C3_Witness ==
    /\ Returned
    /\ \E k \in Candidates(last.agent_capabilities) :
          /\ tasks[k].priority < tasks[last.ret[1]].priority
          /\ Position(k) < Position(last.ret[1])

\* C4 as stated: among the candidates of maximum priority get_next_task
\* returns the one with the earliest creation time, for every order in
\* which the tasks were added.
C4_Original_EarliestCreatedWins ==
    Returned =>
        \A k \in Candidates(last.agent_capabilities) :
            tasks[k].priority = tasks[last.ret[1]].priority
                => tasks[last.ret[1]].created_at <= tasks[k].created_at

\* The keys of the queue were inserted in the order of the creation times.
AddedInCreationOrder ==
    \A i, j \in 1..Len(task_order) :
        i < j => tasks[task_order[i]].created_at <= tasks[task_order[j]].created_at

\* C4 as amended: among the candidates of maximum priority get_next_task
\* returns the one whose id was inserted into the queue first; that is the
\* earliest created one when the ids were inserted in creation order.
C4_FirstInsertedWins ==
    Returned =>
        \A k \in Candidates(last.agent_capabilities) :
            tasks[k].priority = tasks[last.ret[1]].priority
                => /\ Position(last.ret[1]) <= Position(k)
                   /\ AddedInCreationOrder
                        => tasks[last.ret[1]].created_at <= tasks[k].created_at

\* Two candidates share the maximum priority, and the one returned was
\* created after the other.
C4_Witness ==
    /\ Returned
    /\ \E k \in Candidates(last.agent_capabilities) :
          /\ k # last.ret[1]
          /\ tasks[k].priority = tasks[last.ret[1]].priority
          /\ tasks[k].created_at < tasks[last.ret[1]].created_at

----------------------------------------------------------------------------
(* Properties of Agent.assign_task and Agent.report_progress, checked    *)
(* under AgentSpec.                                                      *)

\* C5: in every reachable state an agent has status working if and only if
\* its current_task is not None, also after calls in which the memory
\* client raised.
C5_WorkingIffCurrentTask ==
    \A a \in AgentIds :
        (agent[a].status = "working") <=> (agent[a].current_task # None)

\* assign_task returned False because publishing the assignment raised, and
\* the agent is working on the task.
C5_Witness ==
    /\ last.op = "assign_task"
    /\ last.ret = FALSE
    /\ agent[last.agent].status = "working"
    /\ agent[last.agent].current_task = Some(last.task)
    /\ last.task.id \notin DOMAIN task_assignment

\* C8: assign_task returns True only if the agent was idle and holds every
\* required capability of the task; called on a working agent or with a
\* task that needs a capability the agent lacks it returns False and leaves
\* the agent's status, its current_task and every partition of the memory
\* client unchanged.
C8_RefusedAssignHasNoEffect ==
    [][last'.op = "assign_task" =>
          LET a == last'.agent
              task == last'.task
              capable == task.required_capabilities \subseteq agent[a].capabilities
          IN  /\ last'.ret = TRUE => (agent[a].status = "idle" /\ capable)
              /\ (agent[a].status = "working" \/ ~capable) =>
                    /\ last'.ret = FALSE
                    /\ agent' = agent
                    /\ UNCHANGED <<short_term, long_term, task_assignment,
                                   task_progress, system_status>>]_vars

\* assign_task was refused on an agent that is working on another task.
C8_Witness ==
    /\ last.op = "assign_task"
    /\ last.ret = FALSE
    /\ agent[last.agent].status = "working"
    /\ agent[last.agent].current_task # Some(last.task)
    /\ last.task.required_capabilities \subseteq agent[last.agent].capabilities

\* C9 as stated: after report_progress(p) on an agent that holds a task the
\* agent is idle with current_task None if and only if p.status is
\* completed or failed, and otherwise it is as it was.
C9_Original_IdleIffTerminal ==
    [][(last'.op = "report_progress" /\ agent[last'.agent].current_task # None) =>
          LET a == last'.agent
          IN  /\ (agent'[a].status = "idle" /\ agent'[a].current_task = None)
                    <=> last'.status \in {"completed", "failed"}
              /\ last'.status \notin {"completed", "failed"} => agent'[a] = agent[a]]_vars

\* C9 as amended: after report_progress(p) on an agent that holds a task
\* the agent is idle with current_task None if and only if p.status is
\* completed or failed and the write of the report to world state did not
\* raise; in every other case the agent stays working on the same task.
C9_IdleIffTerminalAndWritten ==
    [][(last'.op = "report_progress" /\ agent[last'.agent].current_task # None) =>
          LET a == last'.agent
              freed == agent'[a].status = "idle" /\ agent'[a].current_task = None
          IN  /\ freed <=> (last'.status \in {"completed", "failed"} /\ ~last'.raised)
              /\ ~freed => (agent'[a] = agent[a] /\ agent[a].status = "working")]_vars

\* An agent reported failed and was freed; its report is in world state.
C9_Witness ==
    /\ last.op = "report_progress"
    /\ last.status = "failed"
    /\ ~last.raised
    /\ agent[last.agent].status = "idle"
    /\ \E id \in DOMAIN task_progress : task_progress[id] = [status |-> "failed"]

\* C10: report_progress on an agent that holds no task writes no record to
\* world state and leaves the agent's status and current_task unchanged,
\* whatever status the report carries, and nothing is raised.
C10_ReportWithoutTaskIsNoOp ==
    [][(last'.op = "report_progress" /\ agent[last'.agent].current_task = None) =>
          /\ agent' = agent
          /\ ~last'.raised
          /\ UNCHANGED <<short_term, long_term, task_assignment, task_progress,
                         system_status>>]_vars

\* An agent that holds no task reported completed, and the records in
\* world state are those that were there: none says completed.
C10_Witness ==
    /\ last.op = "report_progress"
    /\ last.status = "completed"
    /\ agent[last.agent].current_task = None
    /\ task_progress # EmptyMap
    /\ \A id \in DOMAIN task_progress : task_progress[id].status = "failed"

----------------------------------------------------------------------------
(* Properties of the orchestrator's cycles, checked under Spec. *)

\* No memory call raises.
NoFailure == [a \in AgentIds |-> "none"]

\* The step is an assign_tasks pass, or a monitor_progress pass.
AssignStep == pc = "assign" /\ pc' = "monitor"
MonitorStep == pc = "monitor" /\ pc' = "assign"

\* A terminal progress record is in world state for task id.
TerminalRecord(id) ==
    id \in DOMAIN task_progress /\ task_progress[id].status \in {"completed", "failed"}

\* C1 as stated: once the agent that owns an assigned task has reported
\* completed (failed), a monitor_progress pass moves the task of the queue
\* to completed (failed): a pass in which nothing raises leaves no task
\* assigned whose progress record is terminal.
C1_TerminalReportReachesQueue ==
    [][(MonitorStep /\ MonitorProgressWith(NoFailure)) =>
          \A id \in DOMAIN tasks :
              (tasks[id].status = "assigned" /\ TerminalRecord(id))
                  => tasks'[id].status = task_progress[id].status]_vars

\* C6 as stated: a task whose status in the queue is completed or failed
\* keeps that status in every step.
C6_TerminalStatusIsFinal ==
    [][\A id \in DOMAIN tasks :
          tasks[id].status \in {"completed", "failed"}
              => tasks'[id].status = tasks[id].status]_vars

\* Every dependency of the task is a task of the queue that is completed.
DependenciesCompleted(id) ==
    \A d \in tasks[id].dependencies :
        d \in DOMAIN tasks /\ tasks[d].status = "completed"

\* Agent a is registered, idle before the step, and holds every capability
\* task id requires.
IdleCapable(a, id) ==
    /\ \E i \in 1..Len(agents) : agents[i] = a
    /\ agent[a].status = "idle"
    /\ tasks[id].required_capabilities \subseteq agent[a].capabilities

\* assign_tasks moves a task to assigned only if all its dependencies are
\* completed.
AssignedOnlyWhenDependenciesCompleted ==
    AssignStep =>
        \A id \in DOMAIN tasks :
            (tasks[id].status = "pending" /\ tasks'[id].status = "assigned")
                => DependenciesCompleted(id)

----------------------------------------------------------------------------
(* Properties of TaskQueue.add_task and TaskQueue.update_task. *)

\* C11 as stated: add_task with an id that is already a key of the queue
\* fails and leaves the task stored under that id as it was: no add_task
\* changes a task the queue already holds.  Checked under QueueSpec.
C11_DuplicateAddKeepsStoredTask ==
    [][last'.op = "add_task" =>
          \A id \in DOMAIN tasks : tasks'[id] = tasks[id]]_vars

\* C12: update_task with an id that is not a key of the queue returns
\* False and leaves every task of the queue and the keys of the queue
\* unchanged.  Checked under UpdateSpec.
C12_UpdateOfAbsentIdIsNoOp ==
    [][(last'.op = "update_task" /\ last'.task_id \notin DOMAIN tasks) =>
          /\ last'.ret = FALSE
          /\ tasks' = tasks
          /\ DOMAIN tasks' = DOMAIN tasks
          /\ task_order' = task_order]_vars

\* update_task returned False on a queue that holds a task, which is as it
\* was added.
C12_Witness ==
    /\ last.op = "update_task"
    /\ last.ret = FALSE
    /\ last.task_id \notin DOMAIN tasks
    /\ \E id \in DOMAIN tasks : tasks[id] = Task(id, {"code_generation"}, 1, {}, 1)

\* C13 as stated: update_task changes only status, assigned_to and result
\* of a task; its id, priority, dependencies and required_capabilities are
\* as before, and each key of the queue is the id of the task stored under
\* it.  Checked under UpdateSpec.
C13_IdentityIsImmutable ==
    [][last'.op = "update_task" =>
          \A k \in DOMAIN tasks :
              /\ tasks'[k].id = tasks[k].id
              /\ tasks'[k].priority = tasks[k].priority
              /\ tasks'[k].dependencies = tasks[k].dependencies
              /\ tasks'[k].required_capabilities = tasks[k].required_capabilities
              /\ tasks'[k].id = k]_vars

----------------------------------------------------------------------------
(* Properties of the orchestrator's passes, checked under Spec. *)

\* Task id lists a dependency that is not a key of the queue.
HasMissingDependency(id) ==
    \E d \in tasks[id].dependencies : d \notin DOMAIN tasks

\* C14: a task that lists a dependency for which the queue holds no task
\* is blocked in every reachable state: get_next_task returns it for no
\* capability set, it is pending, and no agent has been given it.
C14_MissingDependencyBlocks ==
    \A id \in DOMAIN tasks :
        HasMissingDependency(id) =>
            /\ tasks[id].status = "pending"
            /\ tasks[id].assigned_to = None
            /\ \A caps \in SUBSET Capabilities :
                  get_next_task(tasks, task_order, caps) # Some(id)
            /\ \A a \in AgentIds :
                  agent[a].current_task # None => agent[a].current_task[1].id # id

\* An assign_tasks pass has assigned nothing although an idle registered
\* agent holds the required capabilities of a pending task, whose
\* dependency is missing.
C14_Witness ==
    /\ pc = "monitor"
    /\ last.op = "assign_tasks"
    /\ last.ret = 0
    /\ \E id \in DOMAIN tasks :
          /\ HasMissingDependency(id)
          /\ tasks[id].status = "pending"
          /\ \E a \in AgentIds :
                /\ agent[a].status = "idle"
                /\ tasks[id].required_capabilities \subseteq agent[a].capabilities


\* The agents that an assign_tasks step moves from idle to working, and the
\* tasks it moves from pending to assigned.
StartedAgents ==
    {a \in AgentIds : agent[a].status = "idle" /\ agent'[a].status = "working"}

MovedTasks ==
    {id \in DOMAIN tasks :
        tasks[id].status = "pending" /\ tasks'[id].status = "assigned"}

\* C15: for every agent whose assign_task succeeds during assign_tasks
\* (the agent was idle, was offered a task and no memory call raised), at
\* the end of the pass the agent's current_task carries the id of a task
\* that the queue holds as assigned, with assigned_to the agent's id.
C15_SuccessIsRecordedInQueue ==
    [][\A fails \in [AgentIds -> AssignFailures] :
          (AssignStep /\ AssignTasksWith(fails)) =>
              \A a \in StartedAgents :
                  fails[a] = "none" =>
                      /\ agent'[a].current_task # None
                      /\ \E id \in MovedTasks :
                            /\ agent'[a].current_task[1].id = id
                            /\ tasks'[id].status = "assigned"
                            /\ tasks'[id].assigned_to = Some(a)]_vars

\* One assign_tasks pass has given a task to each of the two agents.
C15_Witness ==
    /\ pc = "monitor"
    /\ last.op = "assign_tasks"
    /\ last.ret = 2
    /\ \A a \in AgentIds :
          /\ agent[a].current_task # None
          /\ tasks[agent[a].current_task[1].id].assigned_to = Some(a)

HeldWithRecord(id, status) ==
    /\ \E i \in 1..Len(agents) :
          /\ agent[agents[i]].status = "working"
          /\ agent[agents[i]].current_task # None
          /\ agent[agents[i]].current_task[1].id = id
    /\ id \in DOMAIN task_progress
    /\ task_progress[id].status = status

\* What a monitor_progress step never does: it changes no agent and no
\* memory partition but the durable snapshots, and it changes a task or its
\* snapshot only to the terminal status of the record of a working agent's
\* current task.
MonitorFrame ==
    /\ agent' = agent
    /\ UNCHANGED <<task_order, agents, short_term, task_assignment,
                   task_progress, system_status>>
    /\ DOMAIN tasks' = DOMAIN tasks
    /\ \A id \in DOMAIN tasks :
          \/ tasks'[id] = tasks[id] /\ Get(long_term', id) = Get(long_term, id)
          \/ \E status \in {"completed", "failed"} :
                /\ HeldWithRecord(id, status)
                /\ tasks'[id].status = status

C18_MonitorFreesAgent ==
    [][MonitorStep =>
          \A a \in AgentIds :
              (/\ agent[a].status = "working"
               /\ agent[a].current_task # None
               /\ tasks[agent[a].current_task[1].id].status = "assigned"
               /\ tasks'[agent[a].current_task[1].id].status \in {"completed", "failed"})
                  => (agent'[a].status = "idle" /\ agent'[a].current_task = None)]_vars

----------------------------------------------------------------------------
(* Properties of TaskOrchestrator.run, checked under RunSpec. *)

\* A step of the cycle has just raised an exception.
CycleRaised ==
    last.op \in {"monitor_progress", "update_system_state"} /\ last.raised

\* C19: a failure inside a cycle does not end the run loop: after a step
\* of a cycle has raised, the loop starts another cycle unless it is
\* cancelled, and cycles are started again and again until the loop is
\* cancelled.
C19_LoopSurvivesExceptions ==
    /\ CycleRaised ~> (pc = "monitor" \/ pc = "cancelled")
    /\ []<>(pc = "monitor") \/ <>(pc = "cancelled")

\* A cycle is running although an earlier cycle raised: a task was set
\* completed in a cycle that never wrote the status of the system.
C19_Witness ==
    /\ pc = "monitor"
    /\ last.op = "assign_tasks"
    /\ system_status = None
    /\ \E id \in DOMAIN tasks : tasks[id].status = "completed"

\* C20 as stated: after a cancellation no new cycle starts, and a cycle
\* that is running when the cancellation arrives completes assign_tasks,
\* monitor_progress and update_system_state before the loop stops: the
\* loop stops only between two cycles, and never leaves the stopped state.
C20_CancellationLetsCycleFinish ==
    [][/\ pc = "cancelled" => pc' = "cancelled"
       /\ (pc # "cancelled" /\ pc' = "cancelled") => pc = "assign"]_vars

----------------------------------------------------------------------------
(* Properties of the agents and of the orchestrator under failures of the  *)
(* memory client.                                                          *)

\* The memory calls of assign_task that may raise.
RaisingAssignCalls == AssignFailures \ {"none"}

\* C21: a call of assign_task in which a memory call raises (the store of
\* the task in short-term memory, or the publication of the assignment
\* record) ends with the return value False: the exception is caught in the
\* call.  A raising store leaves the agent and the memory as they were.
\* Checked under AgentSpec.
C21_RaisingAssignReturnsFalse ==
    [][\A a \in AgentIds, task \in TaskDicts, fail \in RaisingAssignCalls :
          (AgentAssignTaskWith(a, task, fail) /\ ~AssignRefused(agent[a], task)) =>
              /\ last'.ret = FALSE
              /\ fail = "store_short_term" =>
                    (agent' = agent /\ short_term' = short_term)
              /\ task_assignment' = task_assignment]_vars

\* assign_task returned False on an idle agent that holds the required
\* capabilities of the task: the store in short-term memory raised, and the
\* agent is idle as before.
C21_Witness ==
    /\ last.op = "assign_task"
    /\ last.ret = FALSE
    /\ agent[last.agent].status = "idle"
    /\ last.task.required_capabilities \subseteq agent[last.agent].capabilities
    /\ last.task.id \notin DOMAIN short_term

\* The queue, the agents and the memory partitions as assign_task finds
\* them when assign_tasks calls it.
QueueAndAgents ==
    [tasks |-> tasks, task_order |-> task_order, agent |-> agent,
     short_term |-> short_term, task_assignment |-> task_assignment,
     ret |-> FALSE, assigned_count |-> 0]

\* C22: the operations of an agent leave the queue alone.  A call of
\* assign_task in an assign_tasks pass, on any agent with any task of the
\* queue, raising or not, changes no task of the queue and no other agent
\* (the pass marks the task afterwards, on its own); report_progress
\* changes no task of the queue, no other agent and no partition of the
\* memory but the record task_progress:{id} of the reporting agent's task,
\* and of the agent it changes the status and current_task only.  Checked
\* under Spec.
C22_AgentOperationsLeaveQueue ==
    [][/\ AssignStep =>
             \A a \in AgentIds, id \in DOMAIN tasks, fail \in AssignFailures :
                LET M == assign_task(QueueAndAgents, a, to_dict(tasks[id]), fail)
                IN  /\ M.tasks = tasks
                    /\ M.task_order = task_order
                    /\ \A b \in AgentIds \ {a} : M.agent[b] = agent[b]
       /\ \A a \in AgentIds, status \in ProgressStatuses, fail \in ReportFailures :
             ReportProgressWith(a, status, fail) =>
                 /\ tasks' = tasks
                 /\ UNCHANGED <<task_order, agents, short_term, long_term,
                                task_assignment, system_status>>
                 /\ \A b \in AgentIds \ {a} : agent'[b] = agent[b]
                 /\ agent'[a].capabilities = agent[a].capabilities
                 /\ \A k \in DOMAIN task_progress' :
                       \/ k \in DOMAIN task_progress /\ task_progress'[k] = task_progress[k]
                       \/ /\ agent[a].current_task # None
                          /\ k = agent[a].current_task[1].id
                          /\ task_progress'[k] = [status |-> status]]_vars

\* The agent that owns an assigned task has reported a terminal status and
\* is idle; the queue holds the task as assigned as before, and the other
\* agent works on the same task as before.
C22_Witness ==
    \E id \in DOMAIN tasks, a \in AgentIds :
        /\ tasks[id].status = "assigned"
        /\ tasks[id].assigned_to = Some(a)
        /\ tasks[id].result = None
        /\ agent[a].status = "idle"
        /\ agent[a].current_task = None
        /\ TerminalRecord(id)
        /\ \E b \in AgentIds \ {a} :
              agent[b].current_task # None /\ agent[b].current_task[1].id = id

----------------------------------------------------------------------------
(* Properties of Task.to_dict and Task.from_dict, checked under            *)
(* RoundTripSpec.                                                          *)

TaskFields ==
    {"id", "description", "requirements", "required_capabilities", "priority",
     "dependencies", "context", "status", "created_at", "assigned_to", "result"}

\* C23: for a task in any state of its lifecycle, from_dict(to_dict(t))
\* has the eleven fields of t with the values they have in t.
C23_RoundTrip ==
    last.op = "from_dict" =>
        /\ DOMAIN last.ret = TaskFields
        /\ DOMAIN last.task = TaskFields
        /\ \A f \in TaskFields : last.ret[f] = last.task[f]

\* A completed task with an owner, a result, no required capability and
\* an empty context went through the round trip.
C23_Witness ==
    /\ last.op = "from_dict"
    /\ last.task.status = "completed"
    /\ last.task.assigned_to # None
    /\ last.task.result # None
    /\ last.task.required_capabilities = {}
    /\ last.task.context = EmptyMap
    /\ last.task.dependencies # {}
    /\ last.ret = last.task

----------------------------------------------------------------------------
(* Properties of the lifecycle of a task, checked under Spec. *)

\* C24 as stated: the status of a task in the queue follows the path
\* pending, assigned, then completed or failed: no step sets a pending
\* task completed or failed, and no step sets an assigned task pending.
C24_StatusFollowsLifecycle ==
    [][\A id \in DOMAIN tasks :
          /\ tasks[id].status = "pending"
                => tasks'[id].status \in {"pending", "assigned"}
          /\ tasks[id].status = "assigned"
                => tasks'[id].status # "pending"]_vars

----------------------------------------------------------------------------
(* Properties of handle_completed_task and handle_failed_task, checked     *)
(* under HandlerSpec.                                                      *)

\* The step is a call of a handler for a task of the queue.
HandlerStep == last'.op = "handle"

\* After the step the task of the queue has the status and the result the
\* handler was given.
CanonicalUpdated ==
    /\ tasks'[last'.task_id].status = last'.status
    /\ tasks'[last'.task_id].result = Some(last'.result)

\* After the step the snapshot has the status and result of the task.
SnapshotMirrors ==
    /\ last'.task_id \in DOMAIN long_term'
    /\ long_term'[last'.task_id].status = tasks'[last'.task_id].status
    /\ long_term'[last'.task_id].result = tasks'[last'.task_id].result

----------------------------------------------------------------------------
(* Properties of the ownership of tasks, checked under Spec. *)

\* Agent a holds task id as its current task.
Holds(a, id) ==
    agent[a].current_task # None /\ agent[a].current_task[1].id = id

\* C26 as stated: in every reachable state no two registered agents hold
\* the same task id as their current task, also after a memory call
\* raised during assign_task.
C26_NoTaskHeldTwice ==
    \A i, j \in 1..Len(agents) :
        (i # j /\ agent[agents[i]].current_task # None)
            => ~Holds(agents[j], agent[agents[i]].current_task[1].id)

\* C27 as stated: at the end of every assign_tasks pass, also one in which
\* assign_task returned False, every registered agent that is working with
\* current task id finds task id in the queue not pending and with
\* assigned_to its own id.
C27_WorkingAgentOwnsItsTask ==
    (pc = "monitor" /\ last.op = "assign_tasks") =>
        \A i \in 1..Len(agents) :
            LET a == agents[i]
            IN  (agent[a].status = "working" /\ agent[a].current_task # None) =>
                    LET id == agent[a].current_task[1].id
                    IN  /\ id \in DOMAIN tasks
                        /\ tasks[id].status # "pending"
                        /\ tasks[id].assigned_to = Some(a)

\* After the step task id is pending with all its dependencies completed
\* and the registered agent a is idle and holds its required capabilities.
LeftWaiting(a, id) ==
    /\ \E i \in 1..Len(agents') : agents'[i] = a
    /\ agent'[a].status = "idle"
    /\ tasks'[id].status = "pending"
    /\ \A d \in tasks'[id].dependencies :
          d \in DOMAIN tasks' /\ tasks'[d].status = "completed"
    /\ tasks'[id].required_capabilities \subseteq agent'[a].capabilities

\* C28: assign_tasks is work-conserving: a pass in which no memory call
\* raises ends with no pair of a registered idle agent and a pending task
\* whose dependencies are all completed and whose required capabilities
\* the agent holds.
C28_WorkConserving ==
    [][(AssignStep /\ AssignTasksWith(NoFailure)) =>
          \A a \in AgentIds, id \in DOMAIN tasks : ~LeftWaiting(a, id)]_vars

\* A pass has given a test writing task to the one agent that can take it;
\* a second test writing task without dependencies is pending and the
\* other agent is idle, lacking the capability.
C28_Witness ==
    /\ pc = "monitor"
    /\ last.op = "assign_tasks"
    /\ last.ret = 1
    /\ agent["a1"].status = "idle"
    /\ \E id, other \in DOMAIN tasks :
          /\ id # other
          /\ Holds("a2", id)
          /\ tasks[id].status = "assigned"
          /\ tasks[id].assigned_to = Some("a2")
          /\ tasks[other].status = "pending"
          /\ tasks[other].dependencies = {}
          /\ tasks[other].required_capabilities = {"test_writing"}

----------------------------------------------------------------------------
(* Properties of dependent tasks in the run loop, checked under RunSpec. *)

\* Task id is in the queue, pending, and depends on a task that is failed.
BlockedByFailure(id) ==
    /\ id \in DOMAIN tasks
    /\ tasks[id].status = "pending"
    /\ \E d \in tasks[id].dependencies :
          d \in DOMAIN tasks /\ tasks[d].status = "failed"

\* Task id is in the queue and pending.
IsPending(id) == id \in DOMAIN tasks /\ tasks[id].status = "pending"

\* C29 as stated: a task that depends on a task whose status has become
\* failed is never assigned afterwards: from then on it is pending, through
\* every later assign_tasks and monitor_progress pass.
C29_FailedDependencyBlocksForever ==
    \A id \in 1..MaxTasks :
        [](BlockedByFailure(id) => []IsPending(id))

====
